---- MODULE Spec2Model ----
(***************************************************************************)
(* Model of src/scanner/yahoo_finance.cpp: the yahoo_finance table         *)
(* function of Scrooge-McDuck.  Bind validates the arguments, constructs   *)
(* YahooFunctionData (the windowing arithmetic) and plans the first        *)
(* window; every Scan executes the current plan, moves its rows to the     *)
(* output and plans the next window.  The remote fetch is the only         *)
(* nondeterminism: it yields rows, an empty result, or an error.           *)
(*                                                                         *)
(* Spec runs Bind and Scan on dates near 1970, with epochs held as         *)
(* integers.  CallSpec calls the two free functions on any label.          *)
(* WideSpec runs Bind on dates of any era, with the int64 epochs held as   *)
(* decimal digits and the narrowing to int done modulo 2^32.               *)
(***************************************************************************)
EXTENDS Integers, Sequences, FiniteSets, TLC

\* ---------------------------------------------------------------- bounds
\* Latest date (days since 1970-01-01) passed to Bind as to_date.
MaxDay == 365
\* The from_date passed to Bind is day 0 (1970-01-01) or this later day.
MaxFromDay == 1
\* Number of Scan calls the host makes on one cursor.
MaxScans == 7

\* ------------------------------------------------------------- constants
\* duckdb::Interval::SECS_PER_DAY
SECS_PER_DAY == 86400

\* Argument values the host hands to Bind.
Symbols == {"AAPL"}
IntervalLabels == {"1d", "5d", "1wk", "1mo", "3mo", "2d", "1D", ""}
\* Labels handed to IntervalInEpoch and ValidInterval when called directly.
LabelStrings ==
  IntervalLabels \cup
  { "1D", "5D", "1WK", "1Wk", "1wK", "1MO", "1Mo", "1mO", "3MO", "3Mo", "3mO",
    "2d", "3d", "7d", "30d", "90d", "1w", "2wk", "5wk", "1m", "2mo", "5mo",
    "6mo", "3m", "1y", "1h", "60m", "d", "wk", "mo", "1", "5", "3", " 1d",
    "1d ", "1 d", "5d ", "1wk ", " 1mo", "3mo ", "1dd", "11d", "1day",
    "1week", "1month", "3months", "day", "week", "month", "max", "ytd" }
\* What the integer division by zero of the constructor can do: trap
\* (x86 idiv) or yield 0 (AArch64 sdiv).
DivZeroOutcomes == {"trap", "zero"}
ArgTypes == {"DATE", "VARCHAR", "INTEGER"}
FromDates == {0, MaxFromDay}
ToDates == 0..MaxDay
\* What executing a plan and fetching its first chunk can produce.
FetchResults == {"rows", "empty", "error"}

\* ------------------------------------------------------- pure functions
\* C++ integer division (truncates toward zero); for b = 0 the quotient of
\* a build whose division does not trap.
CDiv(a, b) ==
  IF b = 0 THEN 0
  ELSE IF (a >= 0) = (b > 0)
    THEN (IF a >= 0 THEN a ELSE -a) \div (IF b > 0 THEN b ELSE -b)
    ELSE -((IF a >= 0 THEN a ELSE -a) \div (IF b > 0 THEN b ELSE -b))

\* duckdb::Date::Epoch: days since the epoch to seconds since the epoch.
Epoch(date) == date * SECS_PER_DAY

\* IntervalInEpoch falling back to one day for a label it does not know.
IntervalInEpoch_DefaultDay(interval) ==
  IF interval = "1d" THEN SECS_PER_DAY
  ELSE IF interval = "5d" THEN 5 * SECS_PER_DAY
  ELSE IF interval = "1wk" THEN 7 * SECS_PER_DAY
  ELSE IF interval = "1mo" THEN 30 * SECS_PER_DAY
  ELSE IF interval = "3mo" THEN 90 * SECS_PER_DAY
  ELSE SECS_PER_DAY

IntervalInEpoch(interval) ==
  IF interval = "1d" THEN SECS_PER_DAY
  ELSE IF interval = "5d" THEN 5 * SECS_PER_DAY
  ELSE IF interval = "1wk" THEN 7 * SECS_PER_DAY
  ELSE IF interval = "1mo" THEN 30 * SECS_PER_DAY
  ELSE IF interval = "3mo" THEN 90 * SECS_PER_DAY
  ELSE 0

\* Conversion of the int64 quotient to the `int` expected_tuples.
ToInt(x) ==
  IF x > 2147483647 THEN (x - 2147483647) - 2147483647 - 2
  ELSE IF x < -2147483647 - 1 THEN (x + 2147483647) + 2147483647 + 2
  ELSE x

\* expected_tuples of the constructor.
ExpectedTuples(from, to, interval) ==
  ToInt(CDiv(to - from, IntervalInEpoch(interval)) + 1)

\* increment_epoch with the range split at 30 tuples instead of 60.
IncrementEpoch_Split30(from, to, interval) ==
  IF ExpectedTuples(from, to, interval) > 30
    THEN CDiv(to - from, CDiv(ExpectedTuples(from, to, interval), 30) + 1)
    ELSE to - from

\* increment_epoch of the constructor.
IncrementEpoch(from, to, interval) ==
  IF ExpectedTuples(from, to, interval) > 60
    THEN CDiv(to - from, CDiv(ExpectedTuples(from, to, interval), 60) + 1)
    ELSE to - from

\* Initial cur_to_epoch of the constructor.
InitialCurTo(from, to, inc) ==
  IF from + inc < to THEN from + inc ELSE to

\* std::to_string of an int64: its decimal digits, most significant first.
DigitChars == <<"0", "1", "2", "3", "4", "5", "6", "7", "8", "9">>

RECURSIVE Digits(_)
Digits(n) ==
  IF n < 10 THEN <<DigitChars[n + 1]>>
  ELSE Digits(n \div 10) \o <<DigitChars[(n % 10) + 1]>>

to_string(n) == IF n < 0 THEN <<"-">> \o Digits(-n) ELSE Digits(n)

\* The fixed column set handed to ReadCSVRelation.
ColumnDef ==
  << <<"Date", "DATE">>, <<"Open", "DOUBLE">>, <<"High", "DOUBLE">>,
     <<"Low", "DOUBLE">>, <<"Close", "DOUBLE">>, <<"Adj Close", "DOUBLE">>,
     <<"Volume", "HUGEINT">> >>

\* The relation built for one window: the URL's parts and the CSV options.
CsvRel(symbol, from, to, interval) ==
  [ symbol   |-> symbol,
    period1  |-> from,
    period2  |-> to,
    interval |-> interval,
    events   |-> "history",
    columns  |-> ColumnDef,
    HEADER   |-> TRUE,
    NULLSTR  |-> "null" ]

\* The bounds test of the spec's prose: the window start against to_epoch.
PlanDone_From(from, cur_to, to) == from > to

\* GeneratePlan's "we are done" test.
PlanDone(from, cur_to, to) == cur_to > to

\* GeneratePlan with the bounds advanced before they are put in the URL.
GeneratePlan_AdvanceFirst(symbol, from, cur_to, to, interval, inc) ==
  IF PlanDone(from, cur_to, to)
    THEN [ plan |-> <<>>, from_epoch |-> from, cur_to_epoch |-> cur_to ]
    ELSE [ plan |-> << CsvRel(symbol, to_string(from + inc),
                              to_string(cur_to + inc), interval) >>,
           from_epoch   |-> from + inc,
           cur_to_epoch |-> cur_to + inc ]

\* GeneratePlan that advances from_epoch and leaves cur_to_epoch behind.
GeneratePlan_FromOnly(symbol, from, cur_to, to, interval, inc) ==
  IF PlanDone(from, cur_to, to)
    THEN [ plan |-> <<>>, from_epoch |-> from, cur_to_epoch |-> cur_to ]
    ELSE [ plan |-> << CsvRel(symbol, to_string(from), to_string(cur_to),
                              interval) >>,
           from_epoch   |-> from + inc,
           cur_to_epoch |-> cur_to ]

\* GeneratePlan: a nullable relation (<<>> is nullptr) and the advanced bounds.
GeneratePlan(symbol, from, cur_to, to, interval, inc) ==
  IF PlanDone(from, cur_to, to)
    THEN [ plan |-> <<>>, from_epoch |-> from, cur_to_epoch |-> cur_to ]
    ELSE [ plan |-> << CsvRel(symbol, to_string(from), to_string(cur_to),
                              interval) >>,
           from_epoch   |-> from + inc,
           cur_to_epoch |-> cur_to + inc ]

\* ValidInterval with one label too many in its set.
ValidInterval_Accepts2d(interval) ==
  interval \in {"1d", "2d", "5d", "1wk", "1mo", "3mo"}

\* ValidInterval that also takes the upper-case spellings.
ValidInterval_IgnoreCase(interval) ==
  interval \in {"1d", "5d", "1wk", "1mo", "3mo", "1D", "5D", "1WK", "1MO", "3MO"}

\* ValidInterval: TRUE when it returns, FALSE when it throws.
ValidInterval(interval) == interval \in {"1d", "5d", "1wk", "1mo", "3mo"}

\* The range test of Bind with < in place of <=.
RangeRejected_Strict(from_date, to_date) == to_date < from_date

\* Bind's range test: TRUE when it throws.
RangeRejected(from_date, to_date) == to_date <= from_date

\* Bind's argument type test: TRUE when the type is accepted.
DateTyped(type) == type \in {"VARCHAR", "DATE"}

\* ------------------------------------------ int64 values at full width
\* Epochs of dates far from 1970 need more than 32 bits.  An int64 is kept
\* here as its sign and its decimal digits, most significant first, without
\* leading zeros; zero is not negative.  The operators below are the C++
\* operators +, -, <, / on such values.
RECURSIVE IntDigits(_)
IntDigits(n) ==
  IF n < 10 THEN <<n>> ELSE IntDigits(n \div 10) \o <<n % 10>>

\* The digits of n < 0, taken from n itself: -n is not an int for INT_MIN.
RECURSIVE NegDigits(_)
NegDigits(n) ==
  IF n > -10 THEN <<-n>>
  ELSE NegDigits((n + ((10 - (n % 10)) % 10)) \div 10)
         \o <<(10 - (n % 10)) % 10>>

\* The int64 holding the int n.
Wide(n) ==
  IF n < 0 THEN [ neg |-> TRUE, mag |-> NegDigits(n) ]
  ELSE [ neg |-> FALSE, mag |-> IntDigits(n) ]

RECURSIVE Strip(_)
Strip(m) == IF Len(m) > 1 /\ m[1] = 0 THEN Strip(Tail(m)) ELSE m

ZeroPad(m, n) ==
  [i \in 1..n |-> IF i <= n - Len(m) THEN 0 ELSE m[i - (n - Len(m))]]

Signed(neg, m) ==
  LET s == Strip(m) IN [ neg |-> neg /\ s # <<0>>, mag |-> s ]

MagLess(a, b) ==
  \/ Len(a) < Len(b)
  \/ /\ Len(a) = Len(b)
     /\ \E i \in 1..Len(a) :
          /\ a[i] < b[i]
          /\ \A j \in 1..(i - 1) : a[j] = b[j]

RECURSIVE AddFrom(_, _, _, _)
AddFrom(a, b, i, carry) ==
  IF i = 0 THEN (IF carry = 0 THEN <<>> ELSE <<carry>>)
  ELSE AddFrom(a, b, i - 1, (a[i] + b[i] + carry) \div 10)
         \o <<(a[i] + b[i] + carry) % 10>>

MagAdd(a, b) ==
  LET n == IF Len(a) > Len(b) THEN Len(a) ELSE Len(b)
  IN AddFrom(ZeroPad(a, n), ZeroPad(b, n), n, 0)

RECURSIVE SubFrom(_, _, _, _)
SubFrom(a, b, i, borrow) ==
  IF i = 0 THEN <<>>
  ELSE IF a[i] - b[i] - borrow < 0
    THEN SubFrom(a, b, i - 1, 1) \o <<a[i] - b[i] - borrow + 10>>
    ELSE SubFrom(a, b, i - 1, 0) \o <<a[i] - b[i] - borrow>>

\* a - b for magnitudes with b <= a.
MagSub(a, b) ==
  Strip(SubFrom(a, ZeroPad(b, Len(a)), Len(a), 0))

RECURSIVE MulFrom(_, _, _, _)
MulFrom(a, c, i, carry) ==
  IF i = 0 THEN (IF carry = 0 THEN <<>> ELSE IntDigits(carry))
  ELSE MulFrom(a, c, i - 1, (a[i] * c + carry) \div 10)
         \o <<(a[i] * c + carry) % 10>>

\* a * c for a magnitude a and an int c >= 0.
MagMul(a, c) == Strip(<<0>> \o MulFrom(a, c, Len(a), 0))

\* How many times b goes into r, for r < 10 * b.
QuotDigit(r, b) ==
  CHOOSE d \in 0..9 :
    /\ ~MagLess(r, MagMul(b, d))
    /\ d = 9 \/ MagLess(r, MagMul(b, d + 1))

\* Long division of the first i digits of a by b: quotient and remainder.
RECURSIVE DivUpTo(_, _, _)
DivUpTo(a, b, i) ==
  IF i = 0 THEN [ q |-> <<0>>, r |-> <<0>> ]
  ELSE LET p == DivUpTo(a, b, i - 1)
           r == Strip(p.r \o <<a[i]>>)
           d == QuotDigit(r, b)
       IN [ q |-> p.q \o <<d>>, r |-> MagSub(r, MagMul(b, d)) ]

WNeg(a) == Signed(~a.neg, a.mag)

WAdd(a, b) ==
  IF a.neg = b.neg THEN Signed(a.neg, MagAdd(a.mag, b.mag))
  ELSE IF MagLess(a.mag, b.mag) THEN Signed(b.neg, MagSub(b.mag, a.mag))
  ELSE Signed(a.neg, MagSub(a.mag, b.mag))

WSub(a, b) == WAdd(a, WNeg(b))

WMul(a, c) == Signed(a.neg, MagMul(a.mag, c))

WLess(a, b) ==
  IF a.neg # b.neg THEN a.neg
  ELSE IF a.neg THEN MagLess(b.mag, a.mag)
  ELSE MagLess(a.mag, b.mag)

\* C++ int64 division (truncates toward zero); for b = 0 the quotient of a
\* build whose division does not trap.
WDiv(a, b) ==
  IF b.mag = <<0>> THEN Wide(0)
  ELSE Signed(a.neg # b.neg, DivUpTo(a.mag, b.mag, Len(a.mag)).q)

\* The int an int64 within the range of int holds.
RECURSIVE MagValue(_, _, _)
MagValue(m, i, sign) ==
  IF i = 0 THEN 0 ELSE 10 * MagValue(m, i - 1, sign) + sign * m[i]

IntOf(a) == MagValue(a.mag, Len(a.mag), IF a.neg THEN -1 ELSE 1)

\* std::numeric_limits<int>::max(), ::min(), and 2^32.
IntMaxWide == Wide(2147483647)
IntMinWide == [ neg |-> TRUE, mag |-> <<2, 1, 4, 7, 4, 8, 3, 6, 4, 8>> ]
TwoTo32 == [ neg |-> FALSE, mag |-> <<4, 2, 9, 4, 9, 6, 7, 2, 9, 6>> ]

\* Conversion of the int64 quotient to the `int` expected_tuples: the value
\* modulo 2^32 in the range of int.
RECURSIVE ToIntWide(_)
ToIntWide(a) ==
  IF WLess(IntMaxWide, a) THEN ToIntWide(WSub(a, TwoTo32))
  ELSE IF WLess(a, IntMinWide) THEN ToIntWide(WAdd(a, TwoTo32))
  ELSE IntOf(a)

\* duckdb::Date::Epoch
EpochWide(date) == WMul(Wide(date), SECS_PER_DAY)

\* expected_tuples of the constructor.
ExpectedTuplesWide(from, to, interval) ==
  ToIntWide(WAdd(WDiv(WSub(to, from), Wide(IntervalInEpoch(interval))),
                 Wide(1)))

\* increment_epoch of the constructor.
IncrementEpochWide(from, to, interval) ==
  IF ExpectedTuplesWide(from, to, interval) > 60
    THEN WDiv(WSub(to, from),
              Wide(CDiv(ExpectedTuplesWide(from, to, interval), 60) + 1))
    ELSE WSub(to, from)

\* Initial cur_to_epoch of the constructor.
InitialCurToWide(from, to, inc) ==
  IF WLess(WAdd(from, inc), to) THEN WAdd(from, inc) ELSE to

\* The fields the constructor of YahooFunctionData sets from its epochs.
YahooFunctionDataWide(from, to, interval) ==
  [ from_epoch      |-> from,
    to_epoch        |-> to,
    increment_epoch |-> IncrementEpochWide(from, to, interval),
    cur_to_epoch    |-> InitialCurToWide(from, to,
                          IncrementEpochWide(from, to, interval)) ]

\* std::to_string of an int64.
to_stringWide(a) ==
  (IF a.neg THEN <<"-">> ELSE <<>>)
    \o [i \in 1..Len(a.mag) |-> DigitChars[a.mag[i] + 1]]

\* GeneratePlan on int64 bounds.
GeneratePlanWide(symbol, from, cur_to, to, interval, inc) ==
  IF WLess(to, cur_to)
    THEN [ plan |-> <<>>, from_epoch |-> from, cur_to_epoch |-> cur_to ]
    ELSE [ plan |-> << CsvRel(symbol, to_stringWide(from),
                              to_stringWide(cur_to), interval) >>,
           from_epoch   |-> WAdd(from, inc),
           cur_to_epoch |-> WAdd(cur_to, inc) ]


\* -------------------------------------------------------------- state
VARIABLES
  status,           \* "unbound", "bound", "bind_error", "scan_error", "crashed"
  error,            \* the exception that left Bind or Scan, "none" if none
  args,             \* the values of the arguments of the Bind call
  symbol, interval, from_epoch, cur_to_epoch, to_epoch, increment_epoch,
  plan,             \* YahooFunctionData::plan, <<>> is nullptr
  names, return_types,  \* Bind's out-parameters
  output,           \* the DataChunk of the last Scan: "rows" or "none"
  lastFetch,        \* what the last Scan's Execute/Fetch gave, "none" if not run
  built,            \* the relations GeneratePlan has built, in order
  executed,         \* the relations Scan has executed, in order
  nScans,           \* number of Scan calls made
  fetched,          \* what each execution in `executed` gave, in order
  call              \* the last direct call of a free function and its result

data == <<symbol, interval, from_epoch, cur_to_epoch, to_epoch,
          increment_epoch, plan>>
vars == <<status, error, args, symbol, interval, from_epoch, cur_to_epoch,
          to_epoch, increment_epoch, plan, names, return_types, output,
          lastFetch, built, executed, nScans, fetched, call>>

NoArgs == [ symbol |-> "", from_date |-> 0, to_date |-> 0, interval |-> "" ]

NoCall == [ fn |-> "none" ]

Init ==
  /\ status = "unbound"
  /\ error = "none"
  /\ args = NoArgs
  /\ symbol = ""
  /\ interval = ""
  /\ from_epoch = 0
  /\ cur_to_epoch = 0
  /\ to_epoch = 0
  /\ increment_epoch = 0
  /\ plan = <<>>
  /\ names = <<>>
  /\ return_types = <<>>
  /\ output = "none"
  /\ lastFetch = "none"
  /\ built = <<>>
  /\ executed = <<>>
  /\ nScans = 0
  /\ fetched = <<>>
  /\ call = NoCall

\* Bind throws: nothing is constructed.
BindThrows(a, what) ==
  /\ status' = "bind_error"
  /\ error' = what
  /\ args' = a
  /\ UNCHANGED <<symbol, interval, from_epoch, cur_to_epoch, to_epoch,
                 increment_epoch, plan, names, return_types, output,
                 lastFetch, built, executed, nScans>>

\* The constructor's division by interval_epoch = 0 traps.
BindTraps(a) ==
  /\ status' = "crashed"
  /\ error' = "division by zero"
  /\ args' = a
  /\ UNCHANGED <<symbol, interval, from_epoch, cur_to_epoch, to_epoch,
                 increment_epoch, plan, names, return_types, output,
                 lastFetch, built, executed, nScans>>

\* Bind constructs YahooFunctionData and plans the first window.
BindConstructs(a) ==
  LET from == Epoch(a.from_date)
      to   == Epoch(a.to_date)
      inc  == IncrementEpoch(from, to, a.interval)
      cur  == InitialCurTo(from, to, inc)
      gp   == GeneratePlan(a.symbol, from, cur, to, a.interval, inc)
  IN /\ args' = a
     /\ symbol' = a.symbol
     /\ interval' = a.interval
     /\ to_epoch' = to
     /\ increment_epoch' = inc
     /\ from_epoch' = gp.from_epoch
     /\ cur_to_epoch' = gp.cur_to_epoch
     /\ plan' = gp.plan
     /\ built' = built \o gp.plan
     /\ IF gp.plan = <<>>
          THEN \* result->plan->Columns() on a null plan
               /\ status' = "bind_error"
               /\ error' = "null plan"
               /\ UNCHANGED <<names, return_types>>
          ELSE /\ status' = "bound"
               /\ error' = "none"
               /\ names' = [i \in 1..Len(gp.plan[1].columns) |->
                              gp.plan[1].columns[i][1]]
               /\ return_types' = [i \in 1..Len(gp.plan[1].columns) |->
                                     gp.plan[1].columns[i][2]]
     /\ UNCHANGED <<output, lastFetch, executed, nScans>>

\* YahooScanner::Bind
Bind ==
  /\ status = "unbound"
  /\ UNCHANGED <<fetched, call>>
  /\ \E s \in Symbols, ft \in ArgTypes, tt \in ArgTypes,
        fd \in FromDates, td \in ToDates, i \in IntervalLabels :
       LET a == [ symbol |-> s, from_date |-> fd, to_date |-> td,
                  interval |-> i ]
       IN IF ~DateTyped(ft) \/ ~DateTyped(tt)
            THEN BindThrows(a, "Start Period must be a Date or a Date-VARCHAR")
          ELSE IF ~ValidInterval(i)
            THEN BindThrows(a, "Interval is not valid")
          ELSE IF RangeRejected(fd, td)
            THEN BindThrows(a, "The End period must be higher than the start period")
          ELSE \E dz \in DivZeroOutcomes :
                 IF IntervalInEpoch(i) = 0 /\ dz = "trap"
                   THEN BindTraps(a)
                   ELSE BindConstructs(a)

\* Scan with no plan left: returns at once.
ScanNoPlan ==
  /\ plan = <<>>
  /\ UNCHANGED fetched
  /\ output' = "none"
  /\ lastFetch' = "none"
  /\ UNCHANGED <<status, error, symbol, interval, from_epoch, cur_to_epoch,
                 to_epoch, increment_epoch, plan, built, executed>>

\* Scan that swallows a failed fetch and goes on to the next window.
ScanThrows_SkipAndContinue ==
  LET gp == GeneratePlan(symbol, from_epoch, cur_to_epoch, to_epoch,
                         interval, increment_epoch)
  IN /\ plan # <<>>
     /\ executed' = Append(executed, plan[1])
     /\ lastFetch' = "error"
     /\ fetched' = Append(fetched, "error")
     /\ output' = "none"
     /\ plan' = gp.plan
     /\ from_epoch' = gp.from_epoch
     /\ cur_to_epoch' = gp.cur_to_epoch
     /\ built' = built \o gp.plan
     /\ UNCHANGED <<status, error, symbol, interval, to_epoch,
                    increment_epoch>>

\* Scan executes the plan; the fetch fails and the exception leaves Scan.
ScanThrows ==
  /\ plan # <<>>
  /\ executed' = Append(executed, plan[1])
  /\ lastFetch' = "error"
  /\ fetched' = Append(fetched, "error")
  /\ status' = "scan_error"
  /\ error' = "fetch failed"
  /\ output' = "none"
  /\ UNCHANGED <<symbol, interval, from_epoch, cur_to_epoch, to_epoch,
                 increment_epoch, plan, built>>

\* Scan that steps the cursor bounds over a window whose fetch was empty.
ScanEmpty_AdvancesBounds ==
  /\ plan # <<>>
  /\ executed' = Append(executed, plan[1])
  /\ lastFetch' = "empty"
  /\ fetched' = Append(fetched, "empty")
  /\ output' = "none"
  /\ from_epoch' = from_epoch + increment_epoch
  /\ cur_to_epoch' = cur_to_epoch + increment_epoch
  /\ UNCHANGED <<status, error, symbol, interval, to_epoch, increment_epoch,
                 plan, built>>

\* Scan executes the plan; Fetch gives no chunk and Scan returns.
ScanEmpty ==
  /\ plan # <<>>
  /\ executed' = Append(executed, plan[1])
  /\ lastFetch' = "empty"
  /\ fetched' = Append(fetched, "empty")
  /\ output' = "none"
  /\ UNCHANGED <<status, error, symbol, interval, from_epoch, cur_to_epoch,
                 to_epoch, increment_epoch, plan, built>>

\* Scan that plans two windows ahead and keeps the second plan.
ScanRows_PlansTwice ==
  LET gp1 == GeneratePlan(symbol, from_epoch, cur_to_epoch, to_epoch,
                          interval, increment_epoch)
      gp  == GeneratePlan(symbol, gp1.from_epoch, gp1.cur_to_epoch, to_epoch,
                          interval, increment_epoch)
  IN /\ plan # <<>>
     /\ executed' = Append(executed, plan[1])
     /\ lastFetch' = "rows"
     /\ fetched' = Append(fetched, "rows")
     /\ output' = "rows"
     /\ plan' = gp.plan
     /\ from_epoch' = gp.from_epoch
     /\ cur_to_epoch' = gp.cur_to_epoch
     /\ built' = (built \o gp1.plan) \o gp.plan
     /\ UNCHANGED <<status, error, symbol, interval, to_epoch,
                    increment_epoch>>

\* Scan that shortens the step when the next window would pass to_epoch.
ScanRows_Restep ==
  LET gp == GeneratePlan(symbol, from_epoch, cur_to_epoch, to_epoch,
                         interval, increment_epoch)
  IN /\ plan # <<>>
     /\ executed' = Append(executed, plan[1])
     /\ lastFetch' = "rows"
     /\ fetched' = Append(fetched, "rows")
     /\ output' = "rows"
     /\ plan' = gp.plan
     /\ from_epoch' = gp.from_epoch
     /\ cur_to_epoch' = gp.cur_to_epoch
     /\ built' = built \o gp.plan
     /\ increment_epoch' = IF gp.cur_to_epoch > to_epoch
                              THEN to_epoch - from_epoch
                              ELSE increment_epoch
     /\ UNCHANGED <<status, error, symbol, interval, to_epoch>>

\* Scan executes the plan, moves the chunk out and plans the next window.
ScanRows ==
  LET gp == GeneratePlan(symbol, from_epoch, cur_to_epoch, to_epoch,
                         interval, increment_epoch)
  IN /\ plan # <<>>
     /\ executed' = Append(executed, plan[1])
     /\ lastFetch' = "rows"
     /\ fetched' = Append(fetched, "rows")
     /\ output' = "rows"
     /\ plan' = gp.plan
     /\ from_epoch' = gp.from_epoch
     /\ cur_to_epoch' = gp.cur_to_epoch
     /\ built' = built \o gp.plan
     /\ UNCHANGED <<status, error, symbol, interval, to_epoch,
                    increment_epoch>>

\* One Scan call whose fetch, if it runs, gives r.
ScanWith(r) ==
  /\ status = "bound"
  /\ nScans < MaxScans
  /\ nScans' = nScans + 1
  /\ UNCHANGED <<args, names, return_types, call>>
  /\ IF plan = <<>> THEN ScanNoPlan
     ELSE IF r = "error" THEN ScanThrows
     ELSE IF r = "empty" THEN ScanEmpty
     ELSE ScanRows

\* YahooScanner::Scan
Scan == \E r \in FetchResults : ScanWith(r)

Next == Bind \/ Scan

Spec == Init /\ [][Next]_vars

\* ------------------------------------------- the free functions, called
\* directly with any label.
CallIntervalInEpoch ==
  /\ \E l \in LabelStrings :
       call' = [ fn |-> "IntervalInEpoch", interval |-> l,
                 result |-> IntervalInEpoch(l) ]
  /\ UNCHANGED <<status, error, args, symbol, interval, from_epoch,
                 cur_to_epoch, to_epoch, increment_epoch, plan, names,
                 return_types, output, lastFetch, built, executed, nScans,
                 fetched>>

CallValidInterval ==
  /\ \E l \in LabelStrings :
       call' = [ fn |-> "ValidInterval", interval |-> l,
                 result |-> IF ValidInterval(l) THEN "returns"
                            ELSE "InvalidInputException" ]
  /\ UNCHANGED <<status, error, args, symbol, interval, from_epoch,
                 cur_to_epoch, to_epoch, increment_epoch, plan, names,
                 return_types, output, lastFetch, built, executed, nScans,
                 fetched>>

NextCalls == CallIntervalInEpoch \/ CallValidInterval

CallSpec == Init /\ [][NextCalls]_vars

\* --------------------------------------- Bind on dates of any era
\* Dates (days since 1970-01-01) of any era: 0001-01-01, 1969-12-31 and
\* 1970-01-01 as from_date; to_date up to 5881580-07-10, the last date_t.
WideFromDates == {-719162, -1, 0}
WideToDates ==
  {365, 24856, 311000000, 627263879, 1000000000, 2147483645, 2147483646}

\* Bind constructs YahooFunctionData and plans the first window.
BindConstructsWide(a) ==
  \E d \in { YahooFunctionDataWide(EpochWide(a.from_date),
                                    EpochWide(a.to_date), a.interval) } :
  \E gp \in { GeneratePlanWide(a.symbol, d.from_epoch, d.cur_to_epoch,
                               d.to_epoch, a.interval, d.increment_epoch) } :
     /\ args' = a
     /\ symbol' = a.symbol
     /\ interval' = a.interval
     /\ to_epoch' = d.to_epoch
     /\ increment_epoch' = d.increment_epoch
     /\ from_epoch' = gp.from_epoch
     /\ cur_to_epoch' = gp.cur_to_epoch
     /\ plan' = gp.plan
     /\ built' = built \o gp.plan
     /\ IF gp.plan = <<>>
          THEN /\ status' = "bind_error"
               /\ error' = "null plan"
               /\ UNCHANGED <<names, return_types>>
          ELSE /\ status' = "bound"
               /\ error' = "none"
               /\ names' = [i \in 1..Len(gp.plan[1].columns) |->
                              gp.plan[1].columns[i][1]]
               /\ return_types' = [i \in 1..Len(gp.plan[1].columns) |->
                                     gp.plan[1].columns[i][2]]
     /\ UNCHANGED <<output, lastFetch, executed, nScans>>

\* YahooScanner::Bind on dates of any era.
BindWide ==
  /\ status = "unbound"
  /\ UNCHANGED <<fetched, call>>
  /\ \E s \in Symbols, ft \in ArgTypes, tt \in ArgTypes,
        fd \in WideFromDates, td \in WideToDates, i \in IntervalLabels :
       LET a == [ symbol |-> s, from_date |-> fd, to_date |-> td,
                  interval |-> i ]
       IN IF ~DateTyped(ft) \/ ~DateTyped(tt)
            THEN BindThrows(a, "Start Period must be a Date or a Date-VARCHAR")
          ELSE IF ~ValidInterval(i)
            THEN BindThrows(a, "Interval is not valid")
          ELSE IF RangeRejected(fd, td)
            THEN BindThrows(a, "The End period must be higher than the start period")
          ELSE \E dz \in DivZeroOutcomes :
                 IF IntervalInEpoch(i) = 0 /\ dz = "trap"
                   THEN BindTraps(a)
                   ELSE BindConstructsWide(a)

WideSpec == Init /\ [][BindWide]_vars

\* ------------------------------------------------- reading the requests
DigitVal(c) ==
  CASE c = "0" -> 0 [] c = "1" -> 1 [] c = "2" -> 2 [] c = "3" -> 3
    [] c = "4" -> 4 [] c = "5" -> 5 [] c = "6" -> 6 [] c = "7" -> 7
    [] c = "8" -> 8 [] c = "9" -> 9

\* The number the digits s[first..last] denote.
RECURSIVE DigitsValue(_, _, _)
DigitsValue(s, first, last) ==
  IF last < first THEN 0
  ELSE 10 * DigitsValue(s, first, last - 1) + DigitVal(s[last])

\* The number a decimal string denotes.
Value(s) ==
  IF s[1] = "-" THEN -DigitsValue(s, 2, Len(s)) ELSE DigitsValue(s, 1, Len(s))

Period1(r) == Value(r.period1)
Period2(r) == Value(r.period2)

\* A YahooFunctionData exists.
Constructed == status \in {"bound", "scan_error"}
\* The request the cursor was constructed from.
ReqFrom == Epoch(args.from_date)
ReqTo == Epoch(args.to_date)
ReqExpected == ExpectedTuples(ReqFrom, ReqTo, args.interval)
\* The window count computed at construction.
WindowCount == IF ReqExpected > 60 THEN CDiv(ReqExpected, 60) + 1 ELSE 1
\* The step just taken is a Scan call.
ScanStep == nScans' = nScans + 1
\* The scan has run to the end: the plan step has returned nullptr.
Exhausted == status = "bound" /\ plan = <<>>

\* ------------------------------- reading a cursor bound on any dates
\* The int64 a decimal string denotes.
WideOf(s) ==
  IF s[1] = "-"
    THEN Signed(TRUE, [i \in 1..(Len(s) - 1) |-> DigitVal(s[i + 1])])
    ELSE Signed(FALSE, [i \in 1..Len(s) |-> DigitVal(s[i])])

\* The request the cursor was constructed from.
ReqFromWide == EpochWide(args.from_date)
ReqToWide == EpochWide(args.to_date)
ReqRangeWide == WSub(ReqToWide, ReqFromWide)
\* expected_tuples as the constructor holds it, in an int.
ReqExpectedWide == ExpectedTuplesWide(ReqFromWide, ReqToWide, args.interval)
\* (toEpoch - fromEpoch) / intervalSeconds + 1, not narrowed.
ExactSamples ==
  WAdd(WDiv(ReqRangeWide, Wide(IntervalInEpoch(args.interval))), Wide(1))
\* ceil(e / 60) for e > 0
Ceil60(e) == CDiv(e, 60) + (IF e % 60 = 0 THEN 0 ELSE 1)
\* The number of requests GeneratePlan builds from the bounds cur_to and to
\* when it is called until it returns nullptr: it builds one as long as
\* cur_to <= to, and each one adds inc to cur_to.
WindowsLeftOf(cur_to, to, inc) ==
  IF WLess(to, cur_to) THEN 0
  ELSE IntOf(WDiv(WSub(to, cur_to), inc)) + 1
\* The number of requests built once the scan of this cursor is complete.
WindowsOfScan ==
  Len(built) + WindowsLeftOf(cur_to_epoch, to_epoch, increment_epoch)

\* The wide arithmetic and the arithmetic of Spec give the same cursor
\* wherever both can hold the epochs.
WideAgrees ==
  Constructed =>
    /\ Wide(to_epoch) = ReqToWide
    /\ ReqExpected = ReqExpectedWide
    /\ Wide(increment_epoch) =
         IncrementEpochWide(ReqFromWide, ReqToWide, args.interval)
    /\ built[1] =
         GeneratePlanWide(args.symbol, ReqFromWide,
           InitialCurToWide(ReqFromWide, ReqToWide, Wide(increment_epoch)),
           ReqToWide, args.interval, Wide(increment_epoch)).plan[1]

\* In Spec, where the scan is run call by call: whenever a plan is built
\* the number of requests left goes down by one, and none is left when
\* GeneratePlan has returned nullptr.
WindowsLeftCounted ==
  Constructed =>
    /\ Len(built) + WindowsLeftOf(Wide(cur_to_epoch), Wide(to_epoch),
                                  Wide(increment_epoch))
         = 1 + WindowsLeftOf(
                 WAdd(InitialCurToWide(ReqFromWide, ReqToWide,
                                       Wide(increment_epoch)),
                      Wide(increment_epoch)),
                 ReqToWide, Wide(increment_epoch))
    /\ Exhausted =>
         WindowsLeftOf(Wide(cur_to_epoch), Wide(to_epoch),
                       Wide(increment_epoch)) = 0


\* ---------------------------------------------------------------- claims

\* C1 (as stated): after as many Scan calls as the window count computed at
\* construction the plan is gone, so that the next call is the end of the
\* stream, and no more windows than that count are ever requested.
C1_Termination ==
  Constructed =>
    /\ Len(built) <= WindowCount
    /\ (status = "bound" /\ nScans >= WindowCount) => plan = <<>>

\* C2 (as stated): with more than 60 expected tuples, once the scan is
\* complete the first window requested starts at fromEpoch and the last
\* window requested ends exactly at toEpoch.
C2_Coverage ==
  (Exhausted /\ ReqExpected > 60) =>
    /\ Period1(built[1]) = ReqFrom
    /\ Period2(built[Len(built)]) = ReqTo

\* C3 (as stated): with more than 60 expected tuples, the number of requests
\* built over a complete scan, every fetch returning rows, is within 1 of
\* ceil(expected/60).
C3_WindowCount ==
  (status = "bound" /\ ReqExpectedWide > 60) =>
    /\ WindowsOfScan >= Ceil60(ReqExpectedWide) - 1
    /\ WindowsOfScan <= Ceil60(ReqExpectedWide) + 1

\* C4: every request built has period1 < period2 <= toEpoch.
C4_WindowsInRange ==
  \A i \in 1..Len(built) :
    /\ Period1(built[i]) < Period2(built[i])
    /\ Period2(built[i]) <= to_epoch

C4_Witness ==
  /\ Exhausted
  /\ Len(built) >= 2
  /\ Period2(built[Len(built)]) = to_epoch

\* C5: with at most 60 expected tuples the step is the whole range and the
\* one window [fromEpoch, toEpoch] is all that is ever built; a first Scan
\* whose fetch has rows returns them and leaves no plan, and the second Scan
\* returns nothing and executes nothing.
C5_SingleWindow ==
  (Constructed /\ ReqExpected <= 60) =>
    /\ increment_epoch = ReqTo - ReqFrom
    /\ Len(built) = 1
    /\ Period1(built[1]) = ReqFrom
    /\ Period2(built[1]) = ReqTo
    /\ (nScans = 1 /\ lastFetch = "rows") =>
         (output = "rows" /\ executed = built /\ plan = <<>>)
    /\ (status = "bound" /\ nScans = 2 /\ Len(executed) = 1) =>
         (output = "none" /\ lastFetch = "none" /\ plan = <<>>)

C5_Witness ==
  /\ status = "bound"
  /\ ReqExpected <= 60
  /\ ReqExpected > 30
  /\ nScans = 2
  /\ executed = built
  /\ output = "none"

\* A Scan call that got rows and therefore ran the plan step.
PlanStep == ScanStep /\ lastFetch' = "rows"

\* C6 (as stated): the plan step returns no plan exactly when the window
\* start, from_epoch, exceeds to_epoch.
C6_ExhaustedWhenFromPast ==
  [][PlanStep => ((plan' = <<>>) <=> (from_epoch > to_epoch))]_vars

\* C6 (amended): the plan step returns no plan exactly when the window end,
\* cur_to_epoch, exceeds to_epoch; then it builds nothing and advances
\* nothing, and otherwise it builds one request.
C6_ExhaustedWhenToPast ==
  [][PlanStep =>
       /\ (plan' = <<>>) <=> (cur_to_epoch > to_epoch)
       /\ plan' = <<>> =>
            (built' = built /\ from_epoch' = from_epoch
               /\ cur_to_epoch' = cur_to_epoch)
       /\ plan' # <<>> => built' = Append(built, plan'[1])]_vars

C6_Witness ==
  /\ Exhausted
  /\ lastFetch = "rows"
  /\ from_epoch <= to_epoch
  /\ cur_to_epoch > to_epoch

\* C7 (as stated): after a Scan whose fetch was empty the cursor has moved
\* on: the plan is no longer the window that was just executed.
C7_EmptyWindowMovesOn ==
  (status = "bound" /\ lastFetch = "empty") =>
    plan # <<executed[Len(executed)]>>

\* C8 (as stated): once a Scan has returned no rows, a later Scan returns no
\* rows, executes nothing and leaves the cursor as it was.
C8_EndOfStreamTerminal ==
  [][(status = "bound" /\ nScans >= 1 /\ output = "none" /\ ScanStep) =>
       (output' = "none" /\ executed' = executed /\ data' = data
          /\ status' = "bound")]_vars

\* C9: a Scan whose fetch fails lets the error out, emits no rows, executes
\* the request once only and generates no further plan.
C9_FetchErrorAborts ==
  [][(ScanStep /\ lastFetch' = "error") =>
       /\ status' = "scan_error"
       /\ error' # "none"
       /\ output' = "none"
       /\ executed' = Append(executed, plan[1])
       /\ built' = built
       /\ data' = data]_vars

C9_Witness ==
  /\ status = "scan_error"
  /\ lastFetch = "error"
  /\ Len(executed) >= 2
  /\ cur_to_epoch <= to_epoch

\* C10: a Bind call with to_date <= from_date fails, and leaves no cursor,
\* no plan and no request behind.
C10_EmptyRangeRejected ==
  (status # "unbound" /\ args.to_date <= args.from_date) =>
    /\ status = "bind_error"
    /\ error # "none"
    /\ plan = <<>>
    /\ built = <<>>
    /\ executed = <<>>
    /\ names = <<>>
    /\ <<symbol, interval, from_epoch, cur_to_epoch, to_epoch,
         increment_epoch>> = <<"", "", 0, 0, 0, 0>>

C10_Witness ==
  /\ status = "bind_error"
  /\ error = "The End period must be higher than the start period"
  /\ args.to_date = args.from_date

\* The labels the specification lists as supported.
SupportedLabels == {"1d", "5d", "1wk", "1mo", "3mo"}
\* No YahooFunctionData, plan or request exists.
NothingBuilt ==
  /\ plan = <<>>
  /\ built = <<>>
  /\ executed = <<>>
  /\ names = <<>>
  /\ <<symbol, interval, from_epoch, cur_to_epoch, to_epoch,
       increment_epoch>> = <<"", "", 0, 0, 0, 0>>

\* C11: a Bind call whose interval is not one of 1d, 5d, 1wk, 1mo, 3mo fails
\* with an invalid-input error and builds nothing; the interval error is
\* raised for no supported label.
C11_IntervalValidation ==
  /\ (status # "unbound" /\ args.interval \notin SupportedLabels) =>
       /\ status = "bind_error"
       /\ error \in {"Interval is not valid",
                     "Start Period must be a Date or a Date-VARCHAR"}
       /\ NothingBuilt
  /\ error = "Interval is not valid" => args.interval \notin SupportedLabels
  /\ Constructed => args.interval \in SupportedLabels

C11_Witness ==
  /\ status = "bind_error"
  /\ error = "Interval is not valid"
  /\ args.interval = "1D"
  /\ args.to_date > args.from_date

\* The durations the specification documents, in seconds.
DocumentedSeconds(l) ==
  CASE l = "1d"  -> 86400
    [] l = "5d"  -> 432000
    [] l = "1wk" -> 604800
    [] l = "1mo" -> 2592000
    [] l = "3mo" -> 7776000
    [] OTHER     -> 0

\* C12: IntervalInEpoch returns the documented number of seconds for the
\* five supported labels and 0 for any other label, so its result is
\* non-zero exactly for the labels ValidInterval accepts.
C12_IntervalDurations ==
  call.fn = "IntervalInEpoch" =>
    /\ call.result = DocumentedSeconds(call.interval)
    /\ (call.result # 0) <=> ValidInterval(call.interval)

C12_Witness ==
  /\ call.fn = "IntervalInEpoch"
  /\ call.interval = "1MO"
  /\ call.result = 0

\* C13 (as stated): in both branches of the windowing the step holds fewer
\* than 60 intervals, and so does the width of every request built.
C13_SampleCap ==
  status = "bound" =>
    /\ WLess(WDiv(increment_epoch, Wide(IntervalInEpoch(interval))), Wide(60))
    /\ \A i \in 1..Len(built) :
         WLess(WDiv(WSub(WideOf(built[i].period2), WideOf(built[i].period1)),
                    Wide(IntervalInEpoch(interval))),
               Wide(60))

\* The step and the i-th window that follow from the arguments of Bind alone.
ReqStep == IncrementEpoch(ReqFrom, ReqTo, args.interval)
WindowAt(i) ==
  CsvRel(args.symbol, to_string(ReqFrom + (i - 1) * ReqStep),
         to_string(ReqFrom + i * ReqStep), args.interval)
\* The window the j-th execution is for: one past the fetches with rows so far.
ExecIndex(j) == 1 + Cardinality({m \in 1..(j - 1) : fetched[m] = "rows"})

\* C14: the windows are a function of the request and of the fetch results:
\* the i-th request built is the i-th window computed from the arguments,
\* and the j-th request executed is the window selected by the results of
\* the fetches before it.  Two cursors with the same arguments and the same
\* fetch results therefore issue the same windows.
C14_WindowsDetermined ==
  Constructed =>
    /\ \A i \in 1..Len(built) : built[i] = WindowAt(i)
    /\ Len(fetched) = Len(executed)
    /\ \A j \in 1..Len(executed) : executed[j] = WindowAt(ExecIndex(j))

C14_Witness ==
  /\ Exhausted
  /\ Len(built) >= 3
  /\ \E m \in 1..Len(fetched) : fetched[m] = "empty"

\* C15: a plan step that builds a request advances from_epoch and
\* cur_to_epoch by increment_epoch, and the request carries the bounds held
\* on entry; in Bind these are the constructor's bounds.  A request is
\* therefore executed only after the bounds have moved past it.
C15_AdvanceBeforeFetch ==
  [][/\ (PlanStep /\ plan' # <<>>) =>
          /\ from_epoch' = from_epoch + increment_epoch
          /\ cur_to_epoch' = cur_to_epoch + increment_epoch
          /\ Period1(plan'[1]) = from_epoch
          /\ Period2(plan'[1]) = cur_to_epoch
     /\ (status = "unbound" /\ status' = "bound") =>
          /\ Period1(plan'[1]) = Epoch(args'.from_date)
          /\ Period2(plan'[1]) =
               InitialCurTo(Epoch(args'.from_date), to_epoch',
                            increment_epoch')
          /\ from_epoch' = Period1(plan'[1]) + increment_epoch'
          /\ cur_to_epoch' = Period2(plan'[1]) + increment_epoch'
     /\ (ScanStep /\ plan # <<>>) =>
          /\ from_epoch = Period1(plan[1]) + increment_epoch
          /\ cur_to_epoch = Period2(plan[1]) + increment_epoch]_vars

C15_Witness ==
  /\ status = "bound"
  /\ lastFetch = "rows"
  /\ plan # <<>>
  /\ Len(built) >= 3
  /\ from_epoch = Period1(plan[1]) + increment_epoch

\* Every fetch so far returned rows.
AllRows == \A m \in 1..Len(fetched) : fetched[m] = "rows"

\* C16: Bind plans the first window and executes nothing; n Scan calls
\* execute at most n requests and plan at most n more; the windows planned
\* exceed the executions by at most 1; every execution is of a planned
\* window, in non-decreasing order; and when every fetch returned rows the
\* executions are the planned windows in order, each once, with strictly
\* increasing period1.
C16_LazyInOrder ==
  Constructed =>
    /\ nScans = 0 => (Len(built) = 1 /\ executed = <<>>)
    /\ Len(executed) <= nScans
    /\ Len(built) <= nScans + 1
    /\ Len(built) <= Len(executed) + 1
    /\ \A j \in 1..Len(executed) : \E i \in 1..Len(built) : executed[j] = built[i]
    /\ \A j \in 1..(Len(executed) - 1) :
         Period1(executed[j]) <= Period1(executed[j + 1])
    /\ AllRows =>
         /\ executed = SubSeq(built, 1, Len(executed))
         /\ \A j \in 1..(Len(executed) - 1) :
              Period1(executed[j]) < Period1(executed[j + 1])

C16_Witness ==
  /\ Exhausted
  /\ AllRows
  /\ Len(executed) >= 3
  /\ executed = built

\* C17: cur_to_epoch - from_epoch is increment_epoch and increment_epoch is
\* at least 1; every window built has that width, each starts where the one
\* before ended, and its bounds lie strictly after the previous window's.
C17_ConstantWidth ==
  Constructed =>
    /\ cur_to_epoch - from_epoch = increment_epoch
    /\ increment_epoch >= 1
    /\ \A i \in 1..Len(built) :
         Period2(built[i]) - Period1(built[i]) = increment_epoch
    /\ \A i \in 1..(Len(built) - 1) :
         /\ Period1(built[i + 1]) = Period2(built[i])
         /\ Period1(built[i + 1]) > Period1(built[i])
         /\ Period2(built[i + 1]) > Period2(built[i])

C17_Witness ==
  /\ Exhausted
  /\ Len(built) >= 3
  /\ Period1(built[3]) = Period2(built[2])

\* C18: the constructor's symbol, interval, to_epoch and increment_epoch are
\* those of the request and no later step changes them; a Scan step changes
\* nothing of the cursor but from_epoch, cur_to_epoch and plan.
C18_RequestFieldsFrozen ==
  /\ [](Constructed =>
          /\ symbol = args.symbol
          /\ interval = args.interval
          /\ to_epoch = ReqTo
          /\ increment_epoch = ReqStep)
  /\ [][Constructed =>
          /\ symbol' = symbol
          /\ interval' = interval
          /\ to_epoch' = to_epoch
          /\ increment_epoch' = increment_epoch]_vars

C18_Witness ==
  /\ Exhausted
  /\ Len(built) >= 2
  /\ from_epoch # ReqFrom
  /\ increment_epoch = ReqStep

\* C19: no Bind call divides by zero: a constructed cursor has a non-zero
\* interval duration, and where expected_tuples > 60 the second divisor,
\* expected_tuples / 60 + 1, is at least 2.
C19_NoDivisionByZero ==
  /\ status # "crashed"
  /\ error # "division by zero"
  /\ Constructed =>
       /\ IntervalInEpoch(interval) # 0
       /\ ReqExpected > 60 => CDiv(ReqExpected, 60) + 1 >= 2

C19_Witness ==
  /\ Constructed
  /\ ReqExpected > 60
  /\ CDiv(ReqExpected, 60) + 1 = 2
  /\ IntervalInEpoch(interval) = SECS_PER_DAY

\* C20 (as stated): the expected_tuples the constructor holds in an int is
\* (toEpoch - fromEpoch) / intervalSeconds + 1 exactly, and whenever that
\* count exceeds 60 the multi-window branch is taken: the step is shorter
\* than the range.
C20_ExpectedExact ==
  status = "bound" =>
    /\ Wide(ReqExpectedWide) = ExactSamples
    /\ WLess(Wide(60), ExactSamples) => WLess(increment_epoch, ReqRangeWide)

====
